---- MODULE Spec2Model ----
(***************************************************************************)
(* A model of streamlit_app.py, the EDA dashboard of the bank promo        *)
(* response data set: the three cached functions (load_data, filter_data,  *)
(* phik_data), the session flags and their callback, and the script that   *)
(* Streamlit runs top to bottom on every rerun, one step per chart.        *)
(*                                                                         *)
(* Data frames are sequences of rows; a row maps column names to cells.    *)
(* A cell carries its Python type as a tag, so that a count that           *)
(* DataFrame.replace turns into a label stays comparable with a number.    *)
(* Cyrillic literals of the source are written transliterated.             *)
(***************************************************************************)
EXTENDS Integers, Sequences, FiniteSets, TLC

\* ------------------------------------------------------------------ bounds

\* Longest table drawn over RowDomain for the CSV file.
MaxRows == 2
\* Times the user may flip the toggle of one tab.
MaxFlips == 2
\* Labels 0 .. MaxLabel are handed to direct filter_data calls.
MaxLabel == 2
\* Distinct industries and job titles of the wide table.
NumCats == 12

\* -------------------------------------------------------------- constants

DATA_PATH == "datasets/data_full.csv"
\* A second CSV, for load_data calls with another path.
OTHER_PATH == "datasets/other.csv"
Paths == {DATA_PATH, OTHER_PATH}

\* value_counts()[:10]
TopN == 10

NOT_APPLICABLE == "not_applicable"
OTHER_INDUSTRIES == "Drugie sfery"
OTHER_TITLES == "Drugoe"

\* ------------------------------------------------------------------ cells

Num(n) == [tag |-> "num", n |-> n, d |-> 1, s |-> ""]
Str(s) == [tag |-> "str", n |-> 0, d |-> 1, s |-> s]
\* The quotient n / d that a chart computes.
Ratio(n, d) == [tag |-> "ratio", n |-> n, d |-> d, s |-> ""]
\* What is left of an arithmetic on something that is no number.
NaN == [tag |-> "nan", n |-> 0, d |-> 1, s |-> ""]

IsNum(c) == c.tag = "num"

\* Python's True == 1 and False == 0: a bool compared with an int column.
BoolCell(b) == Num(IF b THEN 1 ELSE 0)

\* --------------------------------------------------------------- the data

\* Names of industries and job titles.
CatNames ==
    << "c01", "c02", "c03", "c04", "c05", "c06", "c07", "c08", "c09", "c10",
       "c11", "c12", "c13", "c14", "c15", "c16" >>

\* A row of the CSV (section 6 of the spec lists the columns).
Client(target, gender, age, works, work_time, industry, title) ==
    [ TARGET            |-> Num(target),
      AGE               |-> Num(age),
      GENDER            |-> Num(gender),
      EDUCATION         |-> Str(IF works THEN "higher" ELSE "secondary"),
      MARITAL_STATUS    |-> Str(IF gender = 1 THEN "married" ELSE "single"),
      CHILD_TOTAL       |-> Num(IF works THEN 1 ELSE 2),
      DEPENDANTS        |-> Num(IF works THEN 1 ELSE 0),
      SOCSTATUS_WORK_FL |-> Num(IF works THEN 1 ELSE 0),
      SOCSTATUS_PENS_FL |-> Num(IF works THEN 0 ELSE 1),
      FL_PRESENCE_FL    |-> Num(gender),
      OWN_AUTO          |-> Num(IF works THEN 1 ELSE 0),
      WORK_TIME         |-> Num(work_time),
      FAMILY_INCOME     |-> Str(IF works THEN "20000-50000" ELSE "10000-20000"),
      PERSONAL_INCOME   |-> Num(IF works THEN 15000 ELSE 7000),
      LOAN_NUM_TOTAL    |-> Num(IF works THEN 2 ELSE 1),
      LOAN_NUM_CLOSED   |-> Num(IF works THEN 1 ELSE 0),
      CREDIT            |-> Num(IF works THEN 20000 ELSE 5000),
      TERM              |-> Num(IF works THEN 12 ELSE 6),
      FST_PAYMENT       |-> Num(IF works THEN 2000 ELSE 1000),
      GEN_INDUSTRY      |-> Str(industry),
      GEN_TITLE         |-> Str(title) ]

Worker(target, gender, work_time, industry, title) ==
    Client(target, gender, 30, TRUE, work_time, industry, title)

\* A client who does not work: the sentinel in the three job columns.
NonWorker(target, gender) ==
    Client(target, gender, 60, FALSE, -1, NOT_APPLICABLE, NOT_APPLICABLE)

\* Two working clients, one who does not work, and one who holds the
\* sentinel in two of the three job columns only.
RowDomain ==
    { Worker(0, 1, 12, "c01", "c01"),
      Worker(1, 0, 36, "c02", "c01"),
      Client(1, 1, 45, TRUE, 0, NOT_APPLICABLE, "c02"),
      NonWorker(0, 0) }

RECURSIVE SeqsUpTo(_, _)
SeqsUpTo(S, n) ==
    IF n = 0 THEN {<< >>}
    ELSE LET shorter == SeqsUpTo(S, n - 1)
         IN  shorter \cup {Append(t, r) : t \in shorter, r \in S}

\* A table with more than TopN industries and job titles: category i once,
\* the last category twice, and two clients who do not work.
WideTable ==
    [i \in 1..(NumCats + 3) |->
        IF i <= NumCats THEN Worker(0, i % 2, 12 * i, CatNames[i], CatNames[i + 1])
        ELSE IF i = NumCats + 1 THEN NonWorker(1, 0)
        ELSE IF i = NumCats + 2
             THEN Worker(0, 1, 12, CatNames[NumCats], CatNames[NumCats + 1])
        ELSE NonWorker(0, 1)]

Tables == SeqsUpTo(RowDomain, MaxRows) \cup {WideTable}

\* ----------------------------------------------------------------- pandas

\* A frame or a series holds its values: TLC would otherwise keep the
\* expression and evaluate it again at every access.
Held(f) == f @@ << >>

\* pd.read_csv: the rows of the file under a RangeIndex.
read_csv(file) ==
    Held([i \in 1..Len(file) |-> ("index" :> (i - 1)) @@ file[i]])

\* df[col]: the column as a Series, in row order.
Column(df, col) == Held([i \in 1..Len(df) |-> df[i][col]])

\* df[mask]: a new frame of the rows whose mask entry is True, their index
\* and order kept.
BoolIndex(df, mask) ==
    LET kept == {i \in 1..Len(df) : mask[i]}
        at == Held([k \in 1..Cardinality(kept) |->
                  CHOOSE i \in kept : Cardinality({j \in kept : j <= i}) = k])
    IN  Held([k \in 1..Cardinality(kept) |-> df[at[k]]])

\* Positions of the first occurrence of each value of a column.
FirstSeen(df, col) ==
    {i \in 1..Len(df) : \A j \in 1..(i - 1) : df[j][col] # df[i][col]}

CountOf(df, col, v) == Cardinality({i \in 1..Len(df) : df[i][col] = v})

\* Series.value_counts().reset_index(): one row per distinct value with its
\* count, the larger count first and equal counts in order of first
\* appearance, under a fresh RangeIndex; the columns are <col> and "count".
value_counts(df, col) ==
    LET first == FirstSeen(df, col)
        count == Held([i \in first |-> CountOf(df, col, df[i][col])])
        rank == Held([i \in first |->
                    1 + Cardinality({j \in first :
                            \/ count[j] > count[i]
                            \/ count[j] = count[i] /\ j < i})])
        at == Held([k \in 1..Cardinality(first) |-> CHOOSE i \in first : rank[i] = k])
    IN  Held([k \in 1..Cardinality(first) |->
            (col :> df[at[k]][col]) @@ ("count" :> Num(count[at[k]]))])

\* DataFrame.rename(columns={old: new})
rename(df, old, new) ==
    Held([i \in 1..Len(df) |->
        Held([c \in (DOMAIN df[i] \ {old}) \cup {new} |->
            IF c = new THEN df[i][old] ELSE df[i][c]])])

\* DataFrame.replace(mapping): every cell of every column that equals a key
\* of the mapping is replaced, whatever the column.
replace(df, mapping) ==
    Held([i \in 1..Len(df) |->
        Held([c \in DOMAIN df[i] |->
            IF df[i][c] \in DOMAIN mapping THEN mapping[df[i][c]] ELSE df[i][c]])])

\* df[col] = series, for a series taken from df itself (the same index).
setitem(df, col, series) ==
    Held([i \in 1..Len(df) |-> (col :> series[i]) @@ df[i]])

\* other[col] = series, for a series of df: aligned on the index, and NaN
\* in the rows of other that df does not hold.
setitem_aligned(other, col, df, series) ==
    Held([i \in 1..Len(other) |->
        LET same == {k \in 1..Len(df) : df[k]["index"] = other[i]["index"]}
        IN  (col :> (IF same = {} THEN NaN ELSE series[CHOOSE k \in same : TRUE]))
                @@ other[i]])

\* ----------------------------------------------------- the cached functions

\* How a call ends: with a value, or with the exception it raised.
Return(value) == [raised |-> "", value |-> value]

\* @st.cache_data: the stored value when the arguments were seen before, the
\* outcome of the body otherwise. Every call hands out a copy of its own, so
\* nothing the caller does to the value reaches the cache.
cache_data(cache, key, outcome) ==
    IF key \in DOMAIN cache THEN Return(cache[key]) ELSE outcome

\* The cache after the call: a value the body returned is stored.
cache_store(cache, key, outcome) ==
    IF key \in DOMAIN cache \/ outcome.raised # ""
    THEN cache
    ELSE (key :> outcome.value) @@ cache

\* The body of load_data, on the files of the disk.
load_data(disk, data_path) == Return(read_csv(disk[DATA_PATH]))

\* filter_data keeping the rows of the other labels.
filter_data_complement(df, target_selected) ==
    Return(BoolIndex(df, Held([i \in 1..Len(df) |->
                                  df[i]["TARGET"] # target_selected])))

\* filter_data refusing a label that is neither 0 nor 1.
filter_data_validating(df, target_selected) ==
    IF target_selected \in {Num(0), Num(1)}
    THEN Return(BoolIndex(df, Held([i \in 1..Len(df) |->
                                       df[i]["TARGET"] = target_selected])))
    ELSE [raised |-> "InvalidFilterError", value |-> << >>]

\* The body of filter_data.
filter_data(df, target_selected) ==
    Return(BoolIndex(df, Held([i \in 1..Len(df) |->
                                  df[i]["TARGET"] = target_selected])))

\* The keys of data_types in phik_data.
data_types ==
    { "TARGET", "AGE", "GENDER", "EDUCATION", "MARITAL_STATUS", "CHILD_TOTAL",
      "DEPENDANTS", "SOCSTATUS_WORK_FL", "SOCSTATUS_PENS_FL", "FL_PRESENCE_FL",
      "OWN_AUTO", "WORK_TIME", "FAMILY_INCOME", "PERSONAL_INCOME",
      "LOAN_NUM_TOTAL", "LOAN_NUM_CLOSED", "CREDIT", "TERM", "FST_PAYMENT" }

\* df[list(data_types.keys())]: the frame whose phik_matrix phik_data takes.
\* The matrix itself is the phik library's and is not modelled.
phik_columns(df) ==
    Held([i \in 1..Len(df) |-> Held([c \in data_types \cup {"index"} |-> df[i][c]])])

\* ---------------------------------------------------------- session state

Suffixes == {"DEMO", "MONEY", "CREDIT"}

FlagKey(suffix) == "TARGET_" \o suffix

\* Lines 13-18: a flag that the session does not hold yet starts False.
init_session_state(ss) ==
    [k \in DOMAIN ss \cup {FlagKey(x) : x \in Suffixes} |->
        IF k \in DOMAIN ss THEN ss[k] ELSE FALSE]

\* from_callback switching every flag of the session.
from_callback_all(ss, suffix) == [k \in DOMAIN ss |-> ~ss[k]]

from_callback(ss, suffix) ==
    [ss EXCEPT ![FlagKey(suffix)] = ~ss[FlagKey(suffix)]]

\* ------------------------------------------------------------- the charts

RECURSIVE SumCounts(_, _)
SumCounts(source, k) ==
    IF k = 0 THEN 0 ELSE source[k]["count"].n + SumCounts(source, k - 1)

\* transform_joinaggregate(total='sum(count)'): a number when every count
\* is one.
joinaggregate_total(source) ==
    IF \A i \in 1..Len(source) : IsNum(source[i]["count"])
    THEN Num(SumCounts(source, Len(source)))
    ELSE NaN

\* transform_calculate(percent="datum.count / datum.total")
calculate_percent(count, total) ==
    IF IsNum(count) /\ IsNum(total) /\ total.n # 0
    THEN Ratio(count.n, total.n)
    ELSE NaN

\* bar_chart: the chart's data, every row of source with total and percent.
\* The encodings (bin, axis, colour) only draw these rows.
bar_chart(source, feature) ==
    [ mark    |-> "bar",
      feature |-> feature,
      rows    |-> Held([i \in 1..Len(source) |->
                     ("total" :> joinaggregate_total(source))
                  @@ ("percent" :> calculate_percent(source[i]["count"],
                                                     joinaggregate_total(source)))
                  @@ source[i]]) ]

\* pie_chart: an arc per row of source, its angle the row's "percent".
pie_chart(source, feature) ==
    [mark |-> "arc", feature |-> feature, rows |-> source]

NoChart == [mark |-> "none", feature |-> "", rows |-> << >>]

\* ------------------------------------------------------------- the script

GenderLabels == (Num(1) :> Str("Muzhchiny")) @@ (Num(0) :> Str("Zhenshchiny"))
YesNoLabels == (Num(1) :> Str("da")) @@ (Num(0) :> Str("net"))
\* A chart whose counts are shown as they are.
NoLabels == [c \in {} |-> NaN]

Step(op, tab, suffix, feature, labels) ==
    [op |-> op, tab |-> tab, suffix |-> suffix, feature |-> feature, labels |-> labels]

\* The statements of the script in the order Streamlit runs them: `tab` is
\* the `with tabN:` block a statement stands in, `suffix` names the flag
\* TARGET_<suffix> the statement reads (or, for a toggle, hands to
\* from_callback).
Script ==
    << Step("session", 0, "", "", NoLabels),
       Step("load", 0, "", "", NoLabels),
       Step("toggle", 1, "DEMO", "", NoLabels),
       Step("bar", 1, "DEMO", "GENDER", GenderLabels),
       Step("bar", 1, "DEMO", "AGE", NoLabels),
       Step("pie", 1, "DEMO", "EDUCATION", NoLabels),
       Step("pie", 1, "DEMO", "MARITAL_STATUS", NoLabels),
       Step("bar", 1, "DEMO", "CHILD_TOTAL", NoLabels),
       Step("bar", 1, "DEMO", "DEPENDANTS", NoLabels),
       Step("bar", 1, "DEMO", "SOCSTATUS_WORK_FL", YesNoLabels),
       Step("bar", 1, "DEMO", "SOCSTATUS_PENS_FL", YesNoLabels),
       Step("toggle", 2, "MONEY", "", NoLabels),
       Step("bar", 2, "MONEY", "FL_PRESENCE_FL", YesNoLabels),
       Step("bar", 2, "MONEY", "OWN_AUTO", NoLabels),
       Step("bar", 2, "MONEY", "PERSONAL_INCOME", NoLabels),
       Step("pie", 2, "MONEY", "FAMILY_INCOME", NoLabels),
       Step("industries", 2, "MONEY", "GEN_INDUSTRY", NoLabels),
       Step("titles", 2, "MONEY", "GEN_TITLE", NoLabels),
       Step("work_time", 2, "MONEY", "WORK_TIME", NoLabels),
       Step("toggle", 3, "CREDIT", "", NoLabels),
       Step("bar", 3, "CREDIT", "CREDIT", NoLabels),
       Step("bar", 3, "CREDIT", "TERM", NoLabels),
       Step("bar", 3, "CREDIT", "FST_PAYMENT", NoLabels),
       Step("bar", 3, "CREDIT", "LOAN_NUM_TOTAL", NoLabels),
       Step("bar", 3, "CREDIT", "LOAN_NUM_CLOSED", NoLabels),
       Step("phik", 4, "", "", NoLabels) >>

\* The flag a tab's toggle switches (lines 175, 253, 338).
TabSuffix(tab) ==
    CASE tab = 1 -> "DEMO"
      [] tab = 2 -> "MONEY"
      [] tab = 3 -> "CREDIT"

\* The section without its filter of the clients who do not work.
keep_not_applicable(df, col) == df

\* source[source.<col> != 'not_applicable'] (lines 304, 316)
drop_not_applicable(df, col) ==
    BoolIndex(df, Held([i \in 1..Len(df) |-> df[i][col] # Str(NOT_APPLICABLE)]))

\* source.<col>.value_counts()[:10].index.tolist() (lines 306, 318)
top10(df, col) ==
    LET counts == value_counts(df, col)
    IN  {counts[k][col] : k \in 1..(IF Len(counts) < TopN THEN Len(counts) ELSE TopN)}

\* source.<col>.apply(lambda x: x if x in top else other) (lines 307, 319)
bucketed(df, col, top, other) ==
    Held([i \in 1..Len(df) |-> IF df[i][col] \in top THEN df[i][col] ELSE Str(other)])

\* The assignment written to `data` instead: data[<col>] = <bucketed series>.
assign_bucketed_to_data(d, src, col, series) ==
    [data |-> setitem_aligned(d, col, src, series), source |-> src]

\* The assignment source[<col>] = <bucketed series> of lines 307 and 319, as
\* the values of `data` and `source` after it.
assign_bucketed(d, src, col, series) ==
    [data |-> d, source |-> setitem(src, col, series)]

\* Lines 302-308: the table of the top-10 industries pie.
industries_source(filtered) ==
    LET working == drop_not_applicable(filtered, "GEN_INDUSTRY")
    IN  bucketed(working, "GEN_INDUSTRY", top10(working, "GEN_INDUSTRY"),
                 OTHER_INDUSTRIES)

\* Lines 314-319: the series of the top-10 job titles.
titles_source(filtered) ==
    LET working == drop_not_applicable(filtered, "GEN_TITLE")
    IN  bucketed(working, "GEN_TITLE", top10(working, "GEN_TITLE"), OTHER_TITLES)

\* source[source.WORK_TIME > 0] (line 327), on the table of counts
drop_not_working(counts) ==
    BoolIndex(counts, Held([i \in 1..Len(counts) |->
        IsNum(counts[i]["WORK_TIME"]) /\ counts[i]["WORK_TIME"].n > 0]))

\* phik_data called with the rows of the credit tab's label.
phik_argument_filtered(d, ss) ==
    BoolIndex(d, Held([i \in 1..Len(d) |->
                          d[i]["TARGET"] = BoolCell(ss["TARGET_CREDIT"])]))

\* The frame phik_data is called with (line 418).
phik_argument(d, ss) == d

\* ------------------------------------------------------------------ state

VARIABLES
    files,          \* the CSV files on disk, by path
    load_cache,     \* st.cache_data of load_data: path -> frame
    filter_cache,   \* st.cache_data of filter_data: <<frame, label>> -> frame
    session_state,  \* st.session_state: flag -> bool
    widgets,        \* the toggles on the page, by suffix
    pc,             \* the statement of Script the run is at; 0: no run
    data,           \* the script's `data`
    source,         \* the script's `source`
    call,           \* the last call of a cached function
    chart,          \* the last chart handed to st.altair_chart
    phik_frame,     \* the frame whose phik_matrix was last taken
    flips           \* how often each toggle was flipped

vars ==
    << files, load_cache, filter_cache, session_state, widgets, pc, data, source,
       call, chart, phik_frame, flips >>

\* A call of a cached function: its arguments, and how it ended.
Call(fn, path, df, target, outcome) ==
    [ fn |-> fn, path |-> path, df |-> df, target |-> target,
      raised |-> outcome.raised, ret |-> outcome.value ]

NoCall == Call("none", "", << >>, NaN, Return(<< >>))

EmptyCache == [k \in {} |-> << >>]

Init ==
    /\ files \in [{DATA_PATH} -> Tables]
    /\ load_cache = EmptyCache
    /\ filter_cache = EmptyCache
    /\ session_state = [k \in {} |-> FALSE]
    /\ widgets = {}
    /\ pc = 1
    /\ data = << >>
    /\ source = << >>
    /\ call = NoCall
    /\ chart = NoChart
    /\ phik_frame = << >>
    /\ flips = [x \in Suffixes |-> 0]

Running == pc \in 1..Len(Script)
At(op) == Running /\ Script[pc].op = op

\* filter_data(data, st.session_state.TARGET_<suffix>), through its cache.
FilterKey(suffix) == << data, BoolCell(session_state[FlagKey(suffix)]) >>
Filtered(suffix) ==
    cache_data(filter_cache, FilterKey(suffix),
               filter_data(data, BoolCell(session_state[FlagKey(suffix)])))
FilterCalled(suffix) ==
    /\ filter_cache' = cache_store(filter_cache, FilterKey(suffix), Filtered(suffix))
    /\ call' = Call("filter_data", "", data, BoolCell(session_state[FlagKey(suffix)]),
                    Filtered(suffix))

\* Lines 13-18.
SessionStep ==
    /\ At("session")
    /\ session_state' = init_session_state(session_state)
    /\ pc' = pc + 1
    /\ UNCHANGED << files, load_cache, filter_cache, widgets, data, source, call,
                    chart, phik_frame, flips >>

\* Line 138: data = load_data(DATA_PATH)
LoadStep ==
    /\ At("load")
    /\ data' = cache_data(load_cache, DATA_PATH, load_data(files, DATA_PATH)).value
    /\ load_cache' = cache_store(load_cache, DATA_PATH, load_data(files, DATA_PATH))
    /\ call' = Call("load_data", DATA_PATH, << >>, NaN, Return(data'))
    /\ pc' = pc + 1
    /\ UNCHANGED << files, filter_cache, session_state, widgets, source, chart,
                    phik_frame, flips >>

\* Lines 175, 253, 338: st.toggle(..., on_change=from_callback, kwargs=...)
ToggleStep ==
    /\ At("toggle")
    /\ widgets' = widgets \cup {Script[pc].suffix}
    /\ pc' = pc + 1
    /\ UNCHANGED << files, load_cache, filter_cache, session_state, data, source,
                    call, chart, phik_frame, flips >>

\* The bar charts of a whole filtered column (lines 195-200 and the like).
BarStep ==
    /\ At("bar")
    /\ LET s == Script[pc]
       IN  /\ FilterCalled(s.suffix)
           /\ source' = replace(value_counts(Filtered(s.suffix).value, s.feature), s.labels)
           /\ chart' = bar_chart(source', s.feature)
    /\ pc' = pc + 1
    /\ UNCHANGED << files, load_cache, session_state, widgets, data, phik_frame, flips >>

\* The pie charts of a whole filtered column (lines 209-211 and the like).
PieStep ==
    /\ At("pie")
    /\ LET s == Script[pc]
       IN  /\ FilterCalled(s.suffix)
           /\ source' = rename(value_counts(Filtered(s.suffix).value, s.feature),
                               "count", "percent")
           /\ chart' = pie_chart(source', s.feature)
    /\ pc' = pc + 1
    /\ UNCHANGED << files, load_cache, session_state, widgets, data, phik_frame, flips >>

\* Lines 300-310: the top-10 industries.
IndustriesStep ==
    /\ At("industries")
    /\ LET s == Script[pc]
           working == drop_not_applicable(Filtered(s.suffix).value, "GEN_INDUSTRY")
           after == assign_bucketed(data, working, "GEN_INDUSTRY",
                                    industries_source(Filtered(s.suffix).value))
       IN  /\ FilterCalled(s.suffix)
           /\ data' = after.data
           /\ source' = rename(value_counts(after.source, "GEN_INDUSTRY"),
                               "count", "percent")
           /\ chart' = pie_chart(source', "GEN_INDUSTRY")
    /\ pc' = pc + 1
    /\ UNCHANGED << files, load_cache, session_state, widgets, phik_frame, flips >>

\* Lines 312-321: the top-10 job titles. The bucketed titles are assigned to
\* the column GEN_INDUSTRY and the counts are those of GEN_TITLE.
TitlesStep ==
    /\ At("titles")
    /\ LET s == Script[pc]
           working == drop_not_applicable(Filtered(s.suffix).value, "GEN_TITLE")
           after == assign_bucketed(data, working, "GEN_INDUSTRY",
                                    titles_source(Filtered(s.suffix).value))
       IN  /\ FilterCalled(s.suffix)
           /\ data' = after.data
           /\ source' = rename(value_counts(after.source, "GEN_TITLE"),
                               "count", "percent")
           /\ chart' = pie_chart(source', "GEN_TITLE")
    /\ pc' = pc + 1
    /\ UNCHANGED << files, load_cache, session_state, widgets, phik_frame, flips >>

\* Lines 323-329: the time at the current job.
WorkTimeStep ==
    /\ At("work_time")
    /\ LET s == Script[pc]
       IN  /\ FilterCalled(s.suffix)
           /\ source' = drop_not_working(value_counts(Filtered(s.suffix).value, "WORK_TIME"))
           /\ chart' = bar_chart(source', "WORK_TIME")
    /\ pc' = pc + 1
    /\ UNCHANGED << files, load_cache, session_state, widgets, data, phik_frame, flips >>

\* Lines 417-435: source = phik_data(data) and the heat map of it.
PhikStep ==
    /\ At("phik")
    /\ call' = Call("phik_data", "", phik_argument(data, session_state), NaN,
                    Return(<< >>))
    /\ phik_frame' = phik_columns(phik_argument(data, session_state))
    /\ chart' = [mark |-> "rect", feature |-> "correlation", rows |-> << >>]
    /\ pc' = pc + 1
    /\ UNCHANGED << files, load_cache, filter_cache, session_state, widgets, data,
                    source, flips >>

\* The user flips a toggle that is on the page: Streamlit calls from_callback
\* and runs the script again from its first line, with fresh variables.
Flip(suffix) ==
    /\ pc # 0
    /\ suffix \in widgets
    /\ flips[suffix] < MaxFlips
    /\ session_state' = from_callback(session_state, suffix)
    /\ flips' = [flips EXCEPT ![suffix] = @ + 1]
    /\ pc' = 1
    /\ data' = << >>
    /\ source' = << >>
    /\ call' = NoCall
    /\ chart' = NoChart
    /\ phik_frame' = << >>
    /\ UNCHANGED << files, load_cache, filter_cache, widgets >>

\* A call load_data(path) from outside the script.
LoadCall(path) ==
    /\ pc = 0
    /\ call' = Call("load_data", path, << >>, NaN,
                    cache_data(load_cache, path, load_data(files, path)))
    /\ load_cache' = cache_store(load_cache, path, load_data(files, path))
    /\ UNCHANGED << files, filter_cache, session_state, widgets, pc, data, source,
                    chart, phik_frame, flips >>

\* A call filter_data(data, target_selected) from outside the script.
FilterCall(target_selected) ==
    /\ pc = 0
    /\ call' = Call("filter_data", "", data, target_selected,
                    cache_data(filter_cache, << data, target_selected >>,
                               filter_data(data, target_selected)))
    /\ filter_cache' = cache_store(filter_cache, << data, target_selected >>,
                                   filter_data(data, target_selected))
    /\ UNCHANGED << files, load_cache, session_state, widgets, pc, data, source,
                    chart, phik_frame, flips >>

Next ==
    \/ SessionStep
    \/ LoadStep
    \/ ToggleStep
    \/ BarStep
    \/ PieStep
    \/ IndustriesStep
    \/ TitlesStep
    \/ WorkTimeStep
    \/ PhikStep
    \/ \E suffix \in Suffixes : Flip(suffix)

Spec == Init /\ [][Next]_vars

\* load_data on its own: two files, and calls with either path in any order.
InitLoad ==
    /\ files \in [Paths -> Tables]
    /\ load_cache = EmptyCache
    /\ filter_cache = EmptyCache
    /\ session_state = [k \in {} |-> FALSE]
    /\ widgets = {}
    /\ pc = 0
    /\ data = << >>
    /\ source = << >>
    /\ call = NoCall
    /\ chart = NoChart
    /\ phik_frame = << >>
    /\ flips = [x \in Suffixes |-> 0]

NextLoad == \E path \in Paths : LoadCall(path)

SpecLoad == InitLoad /\ [][NextLoad]_vars

\* filter_data on its own: the loaded table, and calls with the labels
\* 0 .. MaxLabel in any order.
InitFilter ==
    /\ files \in [{DATA_PATH} -> Tables]
    /\ load_cache = cache_store(EmptyCache, DATA_PATH, load_data(files, DATA_PATH))
    /\ filter_cache = EmptyCache
    /\ session_state = init_session_state([k \in {} |-> FALSE])
    /\ widgets = {}
    /\ pc = 0
    /\ data = load_data(files, DATA_PATH).value
    /\ source = << >>
    /\ call = NoCall
    /\ chart = NoChart
    /\ phik_frame = << >>
    /\ flips = [x \in Suffixes |-> 0]

NextFilter == \E v \in 0..MaxLabel : FilterCall(Num(v))

SpecFilter == InitFilter /\ [][NextFilter]_vars

\* ----------------------------------------------------------------- claims

\* The CSV at DATA_PATH.
File == files[DATA_PATH]

\* df holds the rows of the file, in the file's order and under a RangeIndex.
SameAsFile(df, file) ==
    /\ Len(df) = Len(file)
    /\ \A i \in 1..Len(file) :
        /\ DOMAIN df[i] = DOMAIN file[i] \cup {"index"}
        /\ df[i]["index"] = i - 1
        /\ \A c \in DOMAIN file[i] : df[i][c] = file[i][c]

\* The statement of the script that ran last.
Ran == pc \in 2..(Len(Script) + 1)
LastStep == Script[pc - 1]
Drawn(op) == Ran /\ LastStep.op = op

\* The rows of the file with a label, as positions.
Labelled(target) == {i \in 1..Len(File) : File[i]["TARGET"] = target}

RECURSIVE SumOf(_, _, _)
SumOf(rows, col, k) ==
    IF k = 0 THEN 0 ELSE rows[k][col].n + SumOf(rows, col, k - 1)

\* C1: filter_data(T, v) with v in {0, 1} returns exactly the rows of T whose
\* TARGET equals v, each once and in T's order, and no other row.
C1_FilterReturnsExactlyMatchingRows ==
    (call.fn = "filter_data" /\ call.target \in {Num(0), Num(1)}) =>
        /\ call.raised = ""
        /\ \A k \in 1..Len(call.ret) :
            \E i \in 1..Len(call.df) :
                call.df[i] = call.ret[k] /\ call.df[i]["TARGET"] = call.target
        /\ \A i \in 1..Len(call.df) :
            call.df[i]["TARGET"] = call.target =>
                Cardinality({k \in 1..Len(call.ret) : call.ret[k] = call.df[i]}) = 1
        /\ \A k \in 1..Len(call.ret) : \A m \in 1..Len(call.ret) :
            k < m => call.ret[k]["index"] < call.ret[m]["index"]

\* A call that keeps two rows or more and drops a row that lies between them.
C1_Witness ==
    /\ call.fn = "filter_data"
    /\ call.target \in {Num(0), Num(1)}
    /\ Len(call.ret) >= 2
    /\ \E i \in 1..Len(call.df) :
        /\ call.df[i]["TARGET"] # call.target
        /\ call.ret[1]["index"] < call.df[i]["index"]
        /\ call.df[i]["index"] < call.ret[Len(call.ret)]["index"]

\* The rows of the last top-10 pie that show the bucket of the other values.
OtherShown(col, other) ==
    {k \in 1..Len(chart.rows) : chart.rows[k][col] = Str(other)}

\* C2: in both top-10 sections the table handed to the pie chart has at most
\* 11 buckets, and the count of its 'other' bucket is the number of rows that
\* were not excluded minus the sum of the ten largest counts.
C2_TopTenHasOtherBucket ==
    \A op \in {"industries", "titles"} :
        Drawn(op) =>
            LET col == LastStep.feature
                other == IF op = "industries" THEN OTHER_INDUSTRIES ELSE OTHER_TITLES
                working == {i \in 1..Len(call.ret) :
                               call.ret[i][col] # Str(NOT_APPLICABLE)}
                ranked == value_counts(
                    BoolIndex(call.ret, Held([i \in 1..Len(call.ret) |-> i \in working])),
                    col)
                top == IF Len(ranked) < TopN THEN Len(ranked) ELSE TopN
                shown == OtherShown(col, other)
                otherCount == IF shown = {} THEN 0
                              ELSE chart.rows[CHOOSE k \in shown : TRUE]["percent"].n
            IN  /\ Len(chart.rows) <= TopN + 1
                /\ otherCount = Cardinality(working) - SumOf(ranked, "count", top)

\* C3: load_data(p) returns the table stored in the CSV at p, for every path
\* p and whatever calls came before.
C3_LoadReturnsTheFileAtPath ==
    call.fn = "load_data" => SameAsFile(call.ret, files[call.path])

\* C4: the loaded table is never changed: `data`, the frames filter_data is
\* called with and the frames it returns hold the rows and the values of the
\* file, in every run and after every chart.
C4_LoadedTableIsImmutable ==
    /\ pc \in 3..(Len(Script) + 1) => SameAsFile(data, File)
    /\ \A key \in DOMAIN filter_cache : SameAsFile(key[1], File)
    /\ call.fn = "filter_data" =>
        /\ SameAsFile(call.df, File)
        /\ Len(call.ret) = Cardinality(Labelled(call.target))
        /\ \A k \in 1..Len(call.ret) :
            LET i == call.ret[k]["index"] + 1
            IN  /\ i \in Labelled(call.target)
                /\ DOMAIN call.ret[k] = DOMAIN File[i] \cup {"index"}
                /\ \A c \in DOMAIN File[i] : call.ret[k][c] = File[i][c]

\* A filter_data call after both top-10 sections assigned their column, in a
\* run that follows a flip, on a table whose industries were bucketed.
C4_Witness ==
    /\ Drawn("work_time")
    /\ flips["MONEY"] >= 1
    /\ call.fn = "filter_data"
    /\ Cardinality({File[i]["GEN_INDUSTRY"] : i \in Labelled(call.target)}) > TopN + 1
    /\ Len(call.ret) > TopN

\* C5 as claimed: filter_data with a label outside {0, 1} fails with an
\* InvalidFilterError and returns no table.
C5_InvalidLabelRaises ==
    (call.fn = "filter_data" /\ call.target \notin {Num(0), Num(1)}) =>
        call.raised = "InvalidFilterError"

\* C5 amended: filter_data with a label outside {0, 1} raises nothing and
\* returns the rows whose TARGET equals the label, which is the empty table
\* when every TARGET is 0 or 1.
C5_InvalidLabelReturnsMatchingRows ==
    (call.fn = "filter_data" /\ call.target \notin {Num(0), Num(1)}) =>
        /\ call.raised = ""
        /\ \A k \in 1..Len(call.ret) : call.ret[k]["TARGET"] = call.target
        /\ Len(call.ret) =
             Cardinality({i \in 1..Len(call.df) : call.df[i]["TARGET"] = call.target})
        /\ (\A i \in 1..Len(call.df) : call.df[i]["TARGET"] \in {Num(0), Num(1)})
              => call.ret = << >>

\* A call with the label 2 on a table that has rows.
C5_Witness ==
    /\ call.fn = "filter_data"
    /\ call.target = Num(2)
    /\ Len(call.df) > 0
    /\ call.raised = ""
    /\ call.ret = << >>

\* The rows of the file that a job section counts: those of the section's
\* label that do not hold the sentinel in the section's column.
Working(col) ==
    {i \in Labelled(call.target) : File[i][col] # Str(NOT_APPLICABLE)}
WorkingTime ==
    {i \in Labelled(call.target) : File[i]["WORK_TIME"].n > 0}

\* C6: the rows of the clients who do not work never contribute to the three
\* job sections. Industries and job titles: 'not_applicable' is no bucket,
\* every bucket of a value counts the working rows of that value, and the
\* 'other' bucket counts the working rows whose value has no bucket of its
\* own. WORK_TIME: no bar of a value that is not positive, every count is
\* that of the rows with the value, and total and share are taken over the
\* rows with a positive value.
C6_SentinelRowsNeverContribute ==
    /\ \A op \in {"industries", "titles"} :
        Drawn(op) =>
            LET col == LastStep.feature
                other == IF op = "industries" THEN OTHER_INDUSTRIES ELSE OTHER_TITLES
                own == {chart.rows[k][col] : k \in 1..Len(chart.rows)} \ {Str(other)}
            IN  /\ \A k \in 1..Len(chart.rows) :
                    /\ chart.rows[k][col] # Str(NOT_APPLICABLE)
                    /\ chart.rows[k][col] # Str(other) =>
                        chart.rows[k]["percent"] =
                            Num(Cardinality({i \in Working(col) :
                                                File[i][col] = chart.rows[k][col]}))
                    /\ chart.rows[k][col] = Str(other) =>
                        chart.rows[k]["percent"] =
                            Num(Cardinality({i \in Working(col) : File[i][col] \notin own}))
                /\ SumOf(chart.rows, "percent", Len(chart.rows)) = Cardinality(Working(col))
    /\ Drawn("work_time") =>
        /\ \A i \in WorkingTime :
            \E k \in 1..Len(chart.rows) : chart.rows[k]["WORK_TIME"] = File[i]["WORK_TIME"]
        /\ \A k \in 1..Len(chart.rows) :
            LET same == {i \in Labelled(call.target) :
                            File[i]["WORK_TIME"] = chart.rows[k]["WORK_TIME"]}
            IN  /\ chart.rows[k]["WORK_TIME"].n > 0
                /\ chart.rows[k]["count"] = Num(Cardinality(same))
                /\ chart.rows[k]["total"] = Num(Cardinality(WorkingTime))
                /\ chart.rows[k]["percent"] =
                       Ratio(Cardinality(same), Cardinality(WorkingTime))

\* The industries pie of a label with clients who do not work and with more
\* than ten industries, so that it shows the 'other' bucket.
C6_Witness ==
    /\ Drawn("industries")
    /\ \E i \in Labelled(call.target) : File[i]["GEN_INDUSTRY"] = Str(NOT_APPLICABLE)
    /\ \E k \in 1..Len(chart.rows) :
        /\ chart.rows[k]["GEN_INDUSTRY"] = Str(OTHER_INDUSTRIES)
        /\ chart.rows[k]["percent"].n >= 2

\* What a bar chart shows for a value of the column.
Shown(labels, v) == IF v \in DOMAIN labels THEN labels[v] ELSE v

\* C7: for a bar chart of a whole non-empty filtered table, the share of each
\* distinct value is its count divided by the total, the total is the number
\* of rows of the filtered table, and the shares sum to 1.
C7_BarSharesAreCountOverRows ==
    (Drawn("bar") /\ call.ret # << >>) =>
        LET col == LastStep.feature
            n == Len(call.ret)
        IN  /\ \A k \in 1..Len(chart.rows) : chart.rows[k]["total"] = Num(n)
            /\ \A i \in 1..n :
                \E k \in 1..Len(chart.rows) :
                    /\ chart.rows[k][col] = Shown(LastStep.labels, call.ret[i][col])
                    /\ chart.rows[k]["percent"] =
                           Ratio(CountOf(call.ret, col, call.ret[i][col]), n)
            /\ SumOf(chart.rows, "percent", Len(chart.rows)) = n

\* C9: phik_data is always called with the full loaded table, whatever the
\* flags of the three tabs are.
C9_PhikTakesTheFullTable ==
    call.fn = "phik_data" =>
        /\ SameAsFile(call.df, File)
        /\ Len(phik_frame) = Len(File)
        /\ \A i \in 1..Len(File) :
            \A c \in data_types : phik_frame[i][c] = File[i][c]

\* The correlation tab drawn while the credit tab's flag is on and the file
\* holds rows of both labels.
C9_Witness ==
    /\ call.fn = "phik_data"
    /\ session_state["TARGET_CREDIT"]
    /\ session_state["TARGET_DEMO"] # session_state["TARGET_MONEY"]
    /\ Labelled(Num(0)) # {}
    /\ Labelled(Num(1)) # {}

\* C10: the three flags start False and each is True exactly when its own
\* toggle was flipped an odd number of times, and every chart of a tab is
\* computed from filter_data with the flag of that tab as the label.
C10_FlagsFollowTheirOwnToggle ==
    /\ pc >= 2 => DOMAIN session_state = {FlagKey(x) : x \in Suffixes}
    /\ \A x \in Suffixes :
        FlagKey(x) \in DOMAIN session_state =>
            session_state[FlagKey(x)] = (flips[x] % 2 = 1)
    /\ (Ran /\ LastStep.op \in {"bar", "pie", "industries", "titles", "work_time"}) =>
        /\ call.fn = "filter_data"
        /\ call.target = BoolCell(flips[TabSuffix(LastStep.tab)] % 2 = 1)

\* A chart of the first tab after its toggle was flipped once and the second
\* tab's toggle twice.
C10_Witness ==
    /\ Drawn("bar")
    /\ LastStep.tab = 1
    /\ flips["DEMO"] = 1
    /\ flips["MONEY"] = 2
    /\ flips["CREDIT"] = 0
    /\ call.target = Num(1)
    /\ call.ret # << >>

====
